---- MODULE Spec2Model ----
(***************************************************************************)
(* Model of app.py: a Streamlit page that shows the funding progress of    *)
(* the services listed in a Google Sheet and lets each browser session     *)
(* add a contribution to one of them.                                      *)
(*                                                                         *)
(* The sheet (store) is shared by every session.  get_google_sheet_data is *)
(* wrapped in st.cache_resource, a cache shared by every session of the    *)
(* process: a call returns the cached DataFrame when there is one and      *)
(* reads the sheet only on a miss.  Each session runs app() in a thread of *)
(* its own, so the steps of different sessions interleave at the accesses  *)
(* to the cache and to the sheet.  A step of the model is one access to    *)
(* the cache or the sheet together with the local code around it.          *)
(***************************************************************************)
EXTENDS Integers, Sequences, FiniteSets, TLC

\* ---------------------------------------------------------------- bounds
MaxObjetivo == 2     \* the largest target of a row
MaxAportes == 2      \* handled button presses in a behaviour
MaxEdits == 1        \* edits of the sheet by hand in a behaviour
MaxAportesSingle == 3  \* handled button presses when the sheet has one row

\* Two browser sessions: the fewest whose calls can overlap.
Sessions == {"s1", "s2"}

\* Service names in ascending (sort_values) order.
NameOrder == <<"Banda", "Catering", "Flores", "Musica">>

Rank(n) == CHOOSE i \in 1..Len(NameOrder) : NameOrder[i] = n

ServiceNames == {NameOrder[i] : i \in 1..Len(NameOrder)}

\* The names of the rows the sheet starts with: two rows, the fewest that
\* have an order.
InitialNames == {"Banda", "Catering"}

NumRows == Cardinality(InitialNames)

\* Header row of the sheet: column 1, 2, 3.
Columns == <<"Servicio", "Objetivo", "Aportado">>

VARIABLES
    store,      \* the worksheet's data rows, in sheet order (row i+1 of the sheet)
    cache,      \* st.cache_resource entry of get_google_sheet_data: <<>> or <<df>>
    pc,         \* per session: where its script run is
    view,       \* per session: df_servicios of its last run (sorted by Servicio)
    req,        \* per session: the pressed button's service and the amount typed
    latest,     \* per session: df_latest inside update_google_sheet
    outcome,    \* per session: the messages its current run has displayed
    ev,         \* the last step a session took: [op, s]
    presses,    \* how many button presses app() has handled so far
    edits,      \* how many times the sheet has been edited by hand
    up,         \* whether Google Sheets can be reached
    fresh,      \* per session inside update_google_sheet: the contributed values
                \* the sheet has held for its service since its cache clear
    raced,      \* per session: its call re-fetched while another call on the
                \* same service had re-fetched and not yet committed
    aportes     \* per service: the sum of the amounts of its committed calls

vars == <<store, cache, pc, view, req, latest, outcome, ev, presses, edits, up,
          fresh, raced, aportes>>

NoReq == [svc |-> "", amt |-> 0]

\* ------------------------------------------------------- pure helpers

\* df.sort_values(by='Servicio').reset_index(drop=True)
SortValues(df) ==
    LET n == Len(df)
        p == CHOOSE f \in [1..n -> 1..n] :
                /\ \A i, j \in 1..n : i # j => f[i] # f[j]
                /\ \A i, j \in 1..n :
                      i < j => Rank(df[f[i]].Servicio) <= Rank(df[f[j]].Servicio)
    IN  [i \in 1..n |-> df[p[i]]]

\* The cache entry after a call of the cached function: filled on a miss.
CacheAfterGet(c, ws) == IF c = <<>> THEN <<ws>> ELSE c

\* A variant of Returns in which the failure of the connection is ignored.
ReturnsAlways(c, available) == TRUE

\* Whether a call of the cached function returns: on a miss the sheet is read
\* inside try, and the except branch ends the script run with st.stop().
Returns(c, available) == c # <<>> \/ available

\* The DataFrame a call of the cached function returns.
GetData(c, ws) == CacheAfterGet(c, ws)[1]

\* df[df['Servicio'] == service_name].index, as 1-based positions
RowIndex(df, name) == {i \in 1..Len(df) : df[i].Servicio = name}

Min(S) == CHOOSE x \in S : \A y \in S : x <= y

\* worksheet.update_cell(row, col, value); sheet row 1 is the header
UpdateCell(ws, row, col, value) ==
    IF (row - 1) \in 1..Len(ws)
    THEN [ws EXCEPT ![row - 1] = [@ EXCEPT ![Columns[col]] = value]]
    ELSE ws

\* The page offers an input and a button for a service shown below its target.
Offered(df, name) ==
    \E i \in 1..Len(df) : df[i].Servicio = name /\ df[i].Aportado < df[i].Objetivo

RowOf(df, name) == df[Min(RowIndex(df, name))]

\* The contributed values of the rows of a service in the sheet.
Seen(ws, name) == {ws[i].Aportado : i \in RowIndex(ws, name)}

\* A variant of Validate that lets an amount of 0 through.
ValidateFromZero(aportado, objetivo, aporte_input) ==
    IF aporte_input >= 0
    THEN IF (aportado + aporte_input) <= objetivo THEN "update" ELSE "warning_max"
    ELSE "warning_zero"

\* A variant of Validate that lets the sum pass the target by one.
ValidateOverByOne(aportado, objetivo, aporte_input) ==
    IF aporte_input > 0
    THEN IF (aportado + aporte_input) <= objetivo + 1 THEN "update" ELSE "warning_max"
    ELSE "warning_zero"

\* A variant of Validate without the check of the amount against the target.
ValidateNoMax(aportado, objetivo, aporte_input) ==
    IF aporte_input > 0 THEN "update" ELSE "warning_zero"

\* The button handler's checks: call update_google_sheet, or which warning.
Validate(aportado, objetivo, aporte_input) ==
    IF aporte_input > 0
    THEN IF (aportado + aporte_input) <= objetivo THEN "update" ELSE "warning_max"
    ELSE "warning_zero"

\* ---------------------------------------------------------------- Init

\* The sheet as set up for the event: the rows in either order, each with a
\* target and nothing contributed yet.
InitialSheets ==
    {ws \in [1..NumRows -> [Servicio : InitialNames,
                            Objetivo : 1..MaxObjetivo,
                            Aportado : {0}]] :
        \A i, j \in 1..NumRows : i # j => ws[i].Servicio # ws[j].Servicio}

Init ==
    /\ store \in InitialSheets
    /\ cache = <<>>
    /\ pc = [s \in Sessions |-> "start"]
    /\ view = [s \in Sessions |-> <<>>]
    /\ req = [s \in Sessions |-> NoReq]
    /\ latest = [s \in Sessions |-> <<>>]
    /\ outcome = [s \in Sessions |-> {}]
    /\ ev = [op |-> "init", s |-> "none"]
    /\ presses = 0
    /\ edits = 0
    /\ up = TRUE
    /\ fresh = [s \in Sessions |-> {}]
    /\ raced = [s \in Sessions |-> FALSE]
    /\ aportes = [n \in ServiceNames |-> 0]

\* A sheet of a single row, for the wedding with one service to pay for.
SingleSheets ==
    {<<[Servicio |-> n, Objetivo |-> o, Aportado |-> 0]>> :
        n \in InitialNames, o \in 1..MaxObjetivo}

InitSingle ==
    /\ store \in SingleSheets
    /\ cache = <<>>
    /\ pc = [s \in Sessions |-> "start"]
    /\ view = [s \in Sessions |-> <<>>]
    /\ req = [s \in Sessions |-> NoReq]
    /\ latest = [s \in Sessions |-> <<>>]
    /\ outcome = [s \in Sessions |-> {}]
    /\ ev = [op |-> "init", s |-> "none"]
    /\ presses = 0
    /\ edits = 0
    /\ up = TRUE
    /\ fresh = [s \in Sessions |-> {}]
    /\ raced = [s \in Sessions |-> FALSE]
    /\ aportes = [n \in ServiceNames |-> 0]

\* ------------------------------------------------------------- actions

\* The page load of line 72 fails: st.error and st.stop() of lines 30-35; the
\* run ends with nothing but the error on the page.
Stopped(s) ==
    /\ view' = [view EXCEPT ![s] = <<>>]
    /\ outcome' = [outcome EXCEPT ![s] = {"error_store"}]
    /\ ev' = [op |-> "stopped", s |-> s]
    /\ cache' = cache

\* A session opens or reloads the page: app() runs with no button pressed.
Render(s) ==
    /\ aportes' = aportes
    /\ pc[s] \in {"start", "shown"}
    /\ IF Returns(cache, up)
       THEN /\ view' = [view EXCEPT ![s] = SortValues(GetData(cache, store))]
            /\ cache' = CacheAfterGet(cache, store)
            /\ outcome' = [outcome EXCEPT ![s] = {}]
            /\ ev' = [op |-> "render", s |-> s]
       ELSE Stopped(s)
    /\ pc' = [pc EXCEPT ![s] = "shown"]
    /\ req' = [req EXCEPT ![s] = NoReq]
    /\ UNCHANGED <<store, latest, presses, edits, up, fresh, raced>>

\* How many button presses a behaviour explores: one more on a sheet of a
\* single row, where the behaviours are fewer.
PressBound(ws) == IF Len(ws) = 1 THEN MaxAportesSingle ELSE MaxAportes

\* The user types amount a into the input of service svc on the page shown
\* (st.number_input keeps it within 0..max_aporte of that page) and presses
\* the button.  app() runs again from the top: it loads the data (line 72),
\* which may differ from the page the user saw, and handles the press only if
\* this run still renders the button of svc (line 96).  The typed amount
\* comes back from the widget's state as typed.
Aportar(s, svc, a) ==
    /\ aportes' = aportes
    /\ pc[s] = "shown"
    /\ presses < PressBound(store)
    /\ Offered(view[s], svc)
    /\ a \in 0..(RowOf(view[s], svc).Objetivo - RowOf(view[s], svc).Aportado)
    /\ UNCHANGED <<store, latest, edits, up, fresh, raced>>
    /\ IF ~Returns(cache, up)
       THEN /\ Stopped(s)
            /\ req' = [req EXCEPT ![s] = NoReq]
            /\ UNCHANGED <<pc, presses>>
       ELSE
       LET v == SortValues(GetData(cache, store))
       IN  /\ view' = [view EXCEPT ![s] = v]
           /\ cache' = CacheAfterGet(cache, store)
           /\ IF ~Offered(v, svc)
              THEN /\ req' = [req EXCEPT ![s] = NoReq]
                   /\ outcome' = [outcome EXCEPT ![s] = {}]
                   /\ pc' = pc
                   /\ presses' = presses
                   /\ ev' = [op |-> "render", s |-> s]
              ELSE LET d == Validate(RowOf(v, svc).Aportado, RowOf(v, svc).Objetivo, a)
                   IN  /\ req' = [req EXCEPT ![s] = [svc |-> svc, amt |-> a]]
                       /\ presses' = presses + 1
                       /\ ev' = [op |-> "aportar", s |-> s]
                       /\ pc' = IF d = "update"
                                THEN [pc EXCEPT ![s] = "clear"]
                                ELSE pc
                       /\ outcome' = [outcome EXCEPT ![s] =
                                        IF d = "update" THEN {} ELSE {d}]

\* A variant of Clear that leaves the cache as it is.
ClearKeepsCache(s) ==
    /\ aportes' = aportes
    /\ pc[s] = "clear"
    /\ cache' = cache
    /\ pc' = [pc EXCEPT ![s] = "fetch"]
    /\ ev' = [op |-> "clear", s |-> s]
    /\ fresh' = [fresh EXCEPT ![s] = Seen(store, req[s].svc)]
    /\ UNCHANGED <<store, view, req, latest, outcome, presses, edits, up, raced>>

\* update_google_sheet: st.cache_resource.clear()
Clear(s) ==
    /\ aportes' = aportes
    /\ pc[s] = "clear"
    /\ cache' = <<>>
    /\ pc' = [pc EXCEPT ![s] = "fetch"]
    /\ ev' = [op |-> "clear", s |-> s]
    /\ fresh' = [fresh EXCEPT ![s] = Seen(store, req[s].svc)]
    /\ UNCHANGED <<store, view, req, latest, outcome, presses, edits, up, raced>>

\* The calls on the service of session s that have read df_latest and have
\* not reached update_cell yet.
Rivals(s) ==
    {t \in Sessions \ {s} : pc[t] = "write" /\ req[t].svc = req[s].svc}

\* A variant of Fetch that takes the data of the page for df_latest.
FetchFromPage(s) ==
    /\ aportes' = aportes
    /\ pc[s] = "fetch"
    /\ IF Returns(cache, up)
       THEN /\ latest' = [latest EXCEPT ![s] = view[s]]
            /\ cache' = CacheAfterGet(cache, store)
            /\ pc' = [pc EXCEPT ![s] = "write"]
            /\ ev' = [op |-> "fetch", s |-> s]
            /\ raced' = [u \in Sessions |->
                            IF Rivals(s) # {} /\ u \in Rivals(s) \cup {s}
                            THEN TRUE ELSE raced[u]]
            /\ UNCHANGED <<outcome, fresh>>
       ELSE \* st.error and st.stop(): the run ends inside update_google_sheet
            /\ outcome' = [outcome EXCEPT ![s] = {"error_store"}]
            /\ pc' = [pc EXCEPT ![s] = "shown"]
            /\ ev' = [op |-> "stopped", s |-> s]
            /\ fresh' = [fresh EXCEPT ![s] = {}]
            /\ UNCHANGED <<latest, cache, raced>>
    /\ UNCHANGED <<store, view, req, presses, edits, up>>

\* update_google_sheet: df_latest, _ = get_google_sheet_data()
Fetch(s) ==
    /\ aportes' = aportes
    /\ pc[s] = "fetch"
    /\ IF Returns(cache, up)
       THEN /\ latest' = [latest EXCEPT ![s] = GetData(cache, store)]
            /\ cache' = CacheAfterGet(cache, store)
            /\ pc' = [pc EXCEPT ![s] = "write"]
            /\ ev' = [op |-> "fetch", s |-> s]
            /\ raced' = [u \in Sessions |->
                            IF Rivals(s) # {} /\ u \in Rivals(s) \cup {s}
                            THEN TRUE ELSE raced[u]]
            /\ UNCHANGED <<outcome, fresh>>
       ELSE \* st.error and st.stop(): the run ends inside update_google_sheet
            /\ outcome' = [outcome EXCEPT ![s] = {"error_store"}]
            /\ pc' = [pc EXCEPT ![s] = "shown"]
            /\ ev' = [op |-> "stopped", s |-> s]
            /\ fresh' = [fresh EXCEPT ![s] = {}]
            /\ UNCHANGED <<latest, cache, raced>>
    /\ UNCHANGED <<store, view, req, presses, edits, up>>

\* A variant of Committed that takes the row's position from the sorted table.
CommittedSorted(ws, df, name, amount) ==
    LET sorted == SortValues(df)
        idx == RowIndex(sorted, name)
    IN  IF idx # {}
        THEN UpdateCell(ws, Min(idx) + 1, 3, sorted[Min(idx)].Aportado + amount)
        ELSE ws

\* A variant of Committed that adds the amount to the value in the sheet.
CommittedAdds(ws, df, name, amount) ==
    LET idx == RowIndex(df, name)
    IN  IF idx # {}
        THEN UpdateCell(ws, Min(idx) + 1, 3, ws[Min(idx)].Aportado + amount)
        ELSE ws

\* The sheet after update_google_sheet's lookup and update_cell.
Committed(ws, df, name, amount) ==
    LET idx == RowIndex(df, name)
    IN  IF idx # {}
        THEN UpdateCell(ws, Min(idx) + 1, 3, df[Min(idx)].Aportado + amount)
        ELSE ws

\* The messages shown by update_google_sheet and by the lines after its call.
Messages(df, name) ==
    IF RowIndex(df, name) # {} THEN {"success"} ELSE {"error", "success"}

\* fresh after a step that leaves the sheet as ws and ends the call of
\* session s, if any: the sessions past their cache clear note the new values.
Noted(s, ws) ==
    [u \in Sessions |->
        IF u = s THEN {}
        ELSE IF pc[u] \in {"fetch", "write"}
             THEN fresh[u] \cup Seen(ws, req[u].svc)
             ELSE fresh[u]]

\* update_google_sheet from the row lookup on, then st.success of app().
Write(s) ==
    /\ pc[s] = "write"
    /\ IF up \/ RowIndex(latest[s], req[s].svc) = {}
       THEN /\ store' = Committed(store, latest[s], req[s].svc, req[s].amt)
            /\ outcome' = [outcome EXCEPT ![s] = Messages(latest[s], req[s].svc)]
            /\ pc' = [pc EXCEPT ![s] = "rerun"]
            /\ ev' = [op |-> "write", s |-> s]
            /\ aportes' = IF RowIndex(latest[s], req[s].svc) # {}
                          THEN [aportes EXCEPT ![req[s].svc] = @ + req[s].amt]
                          ELSE aportes
            /\ UNCHANGED raced
       ELSE \* update_cell raises: the run ends with the exception on the page
            /\ store' = store
            /\ outcome' = [outcome EXCEPT ![s] = {"exception"}]
            /\ pc' = [pc EXCEPT ![s] = "shown"]
            /\ ev' = [op |-> "raised", s |-> s]
            /\ raced' = [raced EXCEPT ![s] = FALSE]
            /\ UNCHANGED aportes
    /\ fresh' = Noted(s, store')
    /\ UNCHANGED <<cache, view, req, latest, presses, edits, up>>

\* time.sleep(1); st.rerun(): app() runs again from the top.
Rerun(s) ==
    /\ aportes' = aportes
    /\ pc[s] = "rerun"
    /\ IF Returns(cache, up)
       THEN /\ view' = [view EXCEPT ![s] = SortValues(GetData(cache, store))]
            /\ cache' = CacheAfterGet(cache, store)
            /\ outcome' = [outcome EXCEPT ![s] = {}]
            /\ ev' = [op |-> "rerun", s |-> s]
       ELSE Stopped(s)
    /\ pc' = [pc EXCEPT ![s] = "shown"]
    /\ req' = [req EXCEPT ![s] = NoReq]
    /\ latest' = [latest EXCEPT ![s] = <<>>]
    /\ raced' = [raced EXCEPT ![s] = FALSE]
    /\ UNCHANGED <<store, presses, edits, up, fresh>>

\* The cache entry is older than ttl=3600 and is dropped.
CacheExpire ==
    /\ aportes' = aportes
    /\ cache # <<>>
    /\ cache' = <<>>
    /\ UNCHANGED <<ev, store, pc, view, req, latest, outcome, presses, edits, up, fresh, raced>>

\* Somebody with the link edits the sheet: the name of a row is changed.
SheetRenamed(i, n) ==
    /\ aportes' = aportes
    /\ i \in 1..Len(store)
    /\ edits < MaxEdits
    /\ edits' = edits + 1
    /\ \A j \in 1..Len(store) : store[j].Servicio # n
    /\ store' = [store EXCEPT ![i] = [@ EXCEPT !.Servicio = n]]
    /\ fresh' = Noted("none", store')
    /\ UNCHANGED <<ev, cache, pc, view, req, latest, outcome, presses, up, raced>>

\* The connection to Google Sheets is lost or comes back.
Outage ==
    /\ aportes' = aportes
    /\ up' = ~up
    /\ UNCHANGED <<ev, store, cache, pc, view, req, latest, outcome, presses, edits,
                 fresh, raced>>

\* One step of session s.
SessionStep(s) ==
    \/ Render(s)
    \/ \E svc \in ServiceNames : \E a \in 0..MaxObjetivo : Aportar(s, svc, a)
    \/ Clear(s)
    \/ Fetch(s)
    \/ Write(s)
    \/ Rerun(s)

Next ==
    \/ \E s \in Sessions : SessionStep(s)
    \/ CacheExpire

Spec == Init /\ [][Next]_vars

\* One session on its own: no two calls overlap.
NextOne ==
    \/ SessionStep("s1")
    \/ CacheExpire

SpecOne == Init /\ [][NextOne]_vars

\* One session together with somebody who edits the shared sheet by hand.
NextEdit ==
    \/ SessionStep("s1")
    \/ CacheExpire
    \/ \E i \in 1..NumRows : \E n \in ServiceNames : SheetRenamed(i, n)

SpecEdit == Init /\ [][NextEdit]_vars

\* update_google_sheet is entered while no other session is inside it.
ClearAlone(s) ==
    /\ \A t \in Sessions \ {s} : pc[t] \notin {"fetch", "write"}
    /\ Clear(s)

\* The sessions when no two calls of update_google_sheet overlap: a call
\* runs from its cache clear to its update_cell before the next one clears the
\* cache.  Page loads and button presses of the other sessions interleave.
NextSerial ==
    \/ \E s \in Sessions :
          \/ Render(s)
          \/ \E svc \in ServiceNames : \E a \in 0..MaxObjetivo : Aportar(s, svc, a)
          \/ ClearAlone(s)
          \/ Fetch(s)
          \/ Write(s)
          \/ Rerun(s)
    \/ CacheExpire

SpecSerial == Init /\ [][NextSerial]_vars

\* The sessions on a sheet of a single row.
SpecSingle == InitSingle /\ [][Next]_vars

\* The sessions on a sheet of a single row, together with a connection that
\* comes and goes.
NextOutage ==
    \/ Next
    \/ Outage

SpecOutage == InitSingle /\ [][NextOutage]_vars

\* ------------------------------------------------------------ properties

Funded(r) == r.Aportado = r.Objetivo

\* The steps that begin with the page's load of the data (line 72).
LoadOps == {"render", "rerun", "aportar"}

\* The loads after which no contribute call has begun.
PlainLoads == {"render", "rerun"}

\* The step is session s's Write step.
WriteStep(s) == pc[s] = "write" /\ pc'[s] = "rerun"

\* C1: in every reachable state every service of the store satisfies
\* 0 <= contributed <= target.
C1_WithinTarget ==
    \A i \in 1..Len(store) :
        0 <= store[i].Aportado /\ store[i].Aportado <= store[i].Objetivo

\* C2: once a service's stored contributed equals its target, no later
\* contribute call commits anything to it.
C2_FundedIsTerminal ==
    [][\A i \in 1..Len(store) : Funded(store[i]) => store'[i] = store[i]]_vars

\* C3: no commit lowers the stored contributed of a service.
C3_NeverDecreases ==
    [][\A i \in 1..Len(store) : store'[i].Aportado >= store[i].Aportado]_vars

\* C4: the snapshot a page load returns equals the store at the time of the
\* load.
C4_LoadIsFresh ==
    ev.op \in LoadOps => view[ev.s] = SortValues(store)

\* C5: a contribute call whose amount added to the contributed value in the
\* store exceeds the target fails with the capacity warning and leaves the
\* store unchanged.
C5_OverCapacityRejected ==
    [][\A s \in Sessions :
          (/\ WriteStep(s)
           /\ \E i \in 1..Len(store) :
                 /\ store[i].Servicio = req[s].svc
                 /\ store[i].Aportado + req[s].amt > store[i].Objetivo)
          => (store' = store /\ "success" \notin outcome'[s])]_vars

\* C6: a contribute call on a service that is open in the store, with the
\* remaining capacity the caller was shown as amount, leaves the stored
\* contributed equal to the target.
C6_RemainingFunds ==
    [][\A s \in Sessions : \A i \in 1..Len(store) :
          (/\ WriteStep(s)
           /\ store[i].Servicio = req[s].svc
           /\ store[i].Aportado < store[i].Objetivo
           /\ RowOf(view[s], req[s].svc).Servicio = req[s].svc
           /\ req[s].amt = RowOf(view[s], req[s].svc).Objetivo
                              - RowOf(view[s], req[s].svc).Aportado)
          => store'[i].Aportado = store'[i].Objetivo]_vars

\* C7: a handled button press with amount <= 0 shows the amount warning,
\* does not enter update_google_sheet and leaves the store unchanged.
C7_InvalidAmount ==
    [][\A s \in Sessions :
          (/\ ev' = [op |-> "aportar", s |-> s]
           /\ req'[s].svc # ""
           /\ req'[s].amt <= 0)
          => (/\ store' = store
              /\ pc'[s] = "shown"
              /\ outcome'[s] = {"warning_zero"})]_vars

C7_Witness ==
    /\ ev.op = "aportar"
    /\ req[ev.s].svc # ""
    /\ req[ev.s].amt = 0
    /\ outcome[ev.s] = {"warning_zero"}
    /\ \E i \in 1..Len(store) : store[i].Aportado > 0

\* C8: a contribute call for a service absent from the re-fetched snapshot
\* reports the failure and never a success.
C8_NotFoundIsFailure ==
    (ev.op = "write" /\ RowIndex(latest[ev.s], req[ev.s].svc) = {})
        => ("error" \in outcome[ev.s] /\ "success" \notin outcome[ev.s])

\* C9: a step changes no name and no target, and changes the contributed of
\* a row only as the commit of a contribute call for that row's service.
C9_OnlyThatField ==
    [][/\ Len(store') = Len(store)
       /\ \A i \in 1..Len(store) :
             /\ store'[i].Servicio = store[i].Servicio
             /\ store'[i].Objetivo = store[i].Objetivo
             /\ store'[i].Aportado # store[i].Aportado
                   => \E s \in Sessions :
                         WriteStep(s) /\ req[s].svc = store[i].Servicio]_vars

C9_Witness ==
    /\ ev.op = "write"
    /\ outcome[ev.s] = {"success"}
    /\ req[ev.s].amt > 0
    /\ store # SortValues(store)
    /\ RowOf(store, req[ev.s].svc).Aportado
          = RowOf(latest[ev.s], req[ev.s].svc).Aportado + req[ev.s].amt

\* C10: a page load that follows another page load with no contribute call
\* in between returns the same snapshot.
C10_SameSnapshot ==
    [][(ev.op \in PlainLoads /\ ev'.op \in LoadOps)
          => view'[ev'.s] = view[ev.s]]_vars

\* C11: a run whose read of the sheet fails, at the page load or at the
\* re-read inside update_google_sheet, ends there with the connection error:
\* nothing is written and no success is shown.
C11_UnavailableStops ==
    [][\A s \in Sessions :
          (/\ ev'.s = s
           /\ up' = up
           /\ pc[s] \in {"shown", "fetch"}
           /\ cache = <<>>
           /\ ~up)
          => (/\ store' = store
              /\ pc'[s] = "shown"
              /\ outcome'[s] = {"error_store"})]_vars

C11_Witness ==
    /\ ev.op = "stopped"
    /\ req[ev.s].amt > 0
    /\ outcome[ev.s] = {"error_store"}
    /\ pc[ev.s] = "shown"

\* C12: the capacity decision of a contribute call is made against the
\* snapshot the call re-fetched: a call that goes on to commit was accepted
\* for the contributed value of df_latest.
C12_DecidedOnRefetch ==
    \A s \in Sessions :
        (pc[s] = "write" /\ RowIndex(latest[s], req[s].svc) # {})
            => RowOf(latest[s], req[s].svc).Aportado + req[s].amt
                  <= RowOf(latest[s], req[s].svc).Objetivo

\* C13: the value a commit writes is the amount added to the contributed
\* value of df_latest, and df_latest was read from the sheet after the call
\* cleared the cache.
C13_WrittenFromRefetch ==
    [][\A s \in Sessions :
          (WriteStep(s) /\ RowIndex(latest[s], req[s].svc) # {})
          => LET i == Min(RowIndex(latest[s], req[s].svc))
             IN  /\ store'[i].Aportado = latest[s][i].Aportado + req[s].amt
                 /\ latest[s][i].Aportado \in fresh[s]]_vars

\* A commit whose call was accepted on a page that showed another value than
\* the one re-fetched.
C13_Witness ==
    /\ ev.op = "write"
    /\ outcome[ev.s] = {"success"}
    /\ RowOf(view[ev.s], req[ev.s].svc).Aportado
          # RowOf(latest[ev.s], req[ev.s].svc).Aportado
    /\ RowOf(store, req[ev.s].svc).Aportado
          = RowOf(latest[ev.s], req[ev.s].svc).Aportado + req[ev.s].amt

\* Sessions s and t have both committed a call on the same service, and both
\* had read df_latest before either reached update_cell.
RaceDone(s, t) ==
    /\ s # t
    /\ raced[s] /\ raced[t]
    /\ pc[s] = "rerun" /\ pc[t] = "rerun"
    /\ req[s].svc = req[t].svc

\* The call of session s passed the checks of lines 117 and 119 on its page.
Passed(s) ==
    /\ Offered(view[s], req[s].svc)
    /\ req[s].amt > 0
    /\ RowOf(view[s], req[s].svc).Aportado + req[s].amt
          <= RowOf(view[s], req[s].svc).Objetivo

\* C14: two calls on the same service that both re-fetch before either
\* commits have both passed the capacity check of their pages and both end
\* with the success message; the state C14_Witness, where the value stored
\* after both commits exceeds the target, is reachable.
C14_BothPass ==
    \A s, t \in Sessions :
        RaceDone(s, t) => /\ Passed(s) /\ Passed(t)
                          /\ outcome[s] = {"success"}
                          /\ outcome[t] = {"success"}

C14_Witness ==
    \E s, t \in Sessions :
        /\ RaceDone(s, t)
        /\ Passed(s) /\ Passed(t)
        /\ latest[s] = latest[t]
        /\ RowOf(store, req[s].svc).Aportado > RowOf(store, req[s].svc).Objetivo

\* C15: after two overlapping accepted calls on the same service (both
\* re-fetched the same value before either committed) the stored contributed
\* value is less than that value plus the two amounts: one of them is lost.
C15_LostUpdate ==
    \A s, t \in Sessions :
        (RaceDone(s, t) /\ latest[s] = latest[t])
            => RowOf(store, req[s].svc).Aportado
                  < RowOf(latest[s], req[s].svc).Aportado + req[s].amt + req[t].amt

\* A lost update on its own: the sheet's first two calls overlap, and what is
\* stored is within the target.
C15_Witness ==
    \E s, t \in Sessions :
        /\ RaceDone(s, t)
        /\ latest[s] = latest[t]
        /\ RowOf(latest[s], req[s].svc).Aportado = 0
        /\ RowOf(store, req[s].svc).Aportado < req[s].amt + req[t].amt
        /\ RowOf(store, req[s].svc).Aportado <= RowOf(store, req[s].svc).Objetivo

C17_FreshCheckWithinTarget ==
    [][\A s \in Sessions :
          (/\ WriteStep(s)
           /\ RowIndex(latest[s], req[s].svc) # {}
           /\ RowOf(view[s], req[s].svc).Aportado
                 = RowOf(latest[s], req[s].svc).Aportado)
          => LET i == Min(RowIndex(latest[s], req[s].svc))
             IN  store'[i].Aportado <= store'[i].Objetivo]_vars

\* A commit that fills the target of a service somebody had contributed to,
\* from a page that showed what the call re-fetched.
C17_Witness ==
    /\ ev.op = "write"
    /\ outcome[ev.s] = {"success"}
    /\ RowOf(view[ev.s], req[ev.s].svc).Aportado
          = RowOf(latest[ev.s], req[ev.s].svc).Aportado
    /\ RowOf(latest[ev.s], req[ev.s].svc).Aportado > 0
    /\ Funded(RowOf(store, req[ev.s].svc))

====
